---------------------------- MODULE Spec2Model ----------------------------
(***************************************************************************)
(* The pyback relay of ci/pyback: a websocket server that runs one shell   *)
(* command per request and relays the child's output lines and exit        *)
(* status (server.py), and the client that prints the lines and turns the  *)
(* exit status into a return or a ProcessFailed (client.py).               *)
(*                                                                         *)
(* Text is a sequence of code points, child output a sequence of bytes.    *)
(* A Python dict is a function over its (string) keys; an optional value   *)
(* (None or v) is <<>> or <<v>>.  A JSON text is the list of the object's  *)
(* <<key, value>> members.                                                 *)
(***************************************************************************)
EXTENDS Integers, Sequences, FiniteSets, TLC

\* ------------------------------------------------------------------ bounds
\* The longest output (in lines) of a child process.
MaxLines == 2

\* How many times the model lets the handler read end-of-file from a child that
\* has closed its output but not exited yet (the code sets no limit).
MaxEofReads == 2

\* ----------------------------------------------------------- program values
\* bytes.decode(errors="replace") puts U+FFFD where the bytes are not UTF-8.
ReplacementChar == 65533

\* The connections of the model: each is one client invocation (one process
\* calling run_client) and the server's handler coroutine for it.
Conns == {1, 2}

\* Output lines a child may write (bytes): "A\n", "\xc3\xa9\n" (e-acute in
\* UTF-8) and "\xff\n" (not UTF-8).
LineA == <<65, 10>>
LineEacute == <<195, 169, 10>>
LineBad == <<255, 10>>
Lines == {LineA, LineEacute, LineBad}

\* Exit statuses of a child: success, `exit 7`, killed by signal 9.
ExitCodes == {0, 7, -9}

\* Directories: "." and "/work" exist on the server's machine, "/missing"
\* does not.
ExistingDirs == {".", "/work"}
Dirs == {".", "/work", "/missing"}

\* Environments a caller passes: the empty mapping, or one variable.
Envs == {[x \in {} |-> ""], [PROJECT_CONFIG |-> "dev"]}

\* The environment of the server process itself (os.environ of server.py).
ServerEnv == [PATH |-> "/usr/bin"]

RECURSIVE BSeq(_, _)
BSeq(S, n) ==
    IF n = 0 THEN {<<>>}
    ELSE LET shorter == BSeq(S, n - 1)
         IN  shorter \cup {Append(s, x) : s \in {t \in shorter : Len(t) = n - 1}, x \in S}

\* A command line stands for what the shell makes of it: the lines the child
\* writes to its (merged) stdout/stderr, whether it closes that stream before
\* it exits, whether it leaves a background process behind that keeps the
\* stream open (`daemon & exit 7`), and its exit status.  `text` is the command
\* line itself, of which only emptiness matters.
NonEmptyText == "yarn karma"

\* The empty command line: `sh -c ""` writes nothing and exits with status 0.
EmptyCmd == [text |-> "", out |-> <<>>, closes |-> FALSE, detaches |-> FALSE, rc |-> 0]

Cmds ==
    [text : {NonEmptyText}, out : BSeq(Lines, MaxLines), closes : BOOLEAN,
     detaches : {FALSE}, rc : ExitCodes]
    \cup [text : {NonEmptyText}, out : {<<>>, <<LineA>>}, closes : {FALSE},
          detaches : {TRUE}, rc : ExitCodes]
    \cup {EmptyCmd}

\* ------------------------------------------------------------ pure functions
\* dict.get(key): None (<<>>) when the key is absent.
Get(m, k) == IF k \in DOMAIN m THEN <<m[k]>> ELSE <<>>

\* json.dumps of a dict, its members in the order `keys`.
JsonDumps(m, keys) == [i \in 1..Len(keys) |-> <<keys[i], m[keys[i]]>>]

\* json.loads of an object: the dict of its members (the last one of a key wins).
JsonLoads(text) ==
    [k \in {text[i][1] : i \in DOMAIN text} |->
        text[CHOOSE i \in DOMAIN text :
                /\ text[i][1] = k
                /\ \A j \in DOMAIN text : text[j][1] = k => j <= i][2]]

\* bytes.decode(errors="replace"), for one- and two-byte UTF-8 sequences (the
\* model's lines hold no longer ones): a byte that starts no valid sequence
\* becomes U+FFFD.
RECURSIVE Utf8DecodeReplace(_)
Utf8DecodeReplace(b) ==
    IF b = <<>> THEN <<>>
    ELSE IF b[1] < 128 THEN <<b[1]>> \o Utf8DecodeReplace(Tail(b))
    ELSE IF b[1] \in 194..223 /\ Len(b) >= 2 /\ b[2] \in 128..191
         THEN <<(b[1] - 192) * 64 + (b[2] - 128)>> \o Utf8DecodeReplace(Tail(Tail(b)))
    ELSE <<ReplacementChar>> \o Utf8DecodeReplace(Tail(b))

\* unidecode.unidecode on one code point: ASCII is kept, e-acute becomes "e",
\* U+FFFD has no transliteration and comes out as the placeholder "[?]" (the
\* Unidecode 1.0 tables; setup.py pins no version), anything else is dropped.
UnidecodeChar(cp) ==
    IF cp < 128 THEN <<cp>>
    ELSE IF cp = 233 THEN <<101>>
    ELSE IF cp = ReplacementChar THEN <<91, 63, 93>>
    ELSE <<>>

RECURSIVE sanitize_line(_)
sanitize_line(line) ==
    IF line = <<>> THEN <<>>
    ELSE UnidecodeChar(line[1]) \o sanitize_line(Tail(line))


\* Truth value of a Python string: the empty string is falsy.
Truthy(opt) == opt /= <<>> /\ opt[1] /= <<>>

\* Mutants of on_message.  Line 34 returning True: the first line ends the loop.
client_on_message_done_after_line(json_message) ==
    LET message == JsonLoads(json_message)
        line == Get(message, "line")
        rc == Get(message, "exit")
    IN  IF Truthy(line)
        THEN [prints |-> << <<sanitize_line(line[1])>> >>, done |-> TRUE, raised |-> <<>>]
        ELSE IF rc /= <<>>
        THEN IF rc[1] = 0
             THEN [prints |-> <<>>, done |-> TRUE, raised |-> <<>>]
             ELSE [prints |-> << <<"process exited with", rc[1]>> >>,
                   done |-> FALSE, raised |-> <<rc[1]>>]
        ELSE [prints |-> <<>>, done |-> FALSE, raised |-> <<>>]

\* Line 37 testing `rc <= 0`: a child killed by a signal counts as a success.
client_on_message_negative_is_success(json_message) ==
    LET message == JsonLoads(json_message)
        line == Get(message, "line")
        rc == Get(message, "exit")
    IN  IF Truthy(line)
        THEN [prints |-> << <<sanitize_line(line[1])>> >>, done |-> FALSE, raised |-> <<>>]
        ELSE IF rc /= <<>>
        THEN IF rc[1] <= 0
             THEN [prints |-> <<>>, done |-> TRUE, raised |-> <<>>]
             ELSE [prints |-> << <<"process exited with", rc[1]>> >>,
                   done |-> FALSE, raised |-> <<rc[1]>>]
        ELSE [prints |-> <<>>, done |-> FALSE, raised |-> <<>>]

\* Line 36 testing `if not rc` on a message without a line: a message that
\* carries no exit status ends the loop as a success.
client_on_message_done_without_exit(json_message) ==
    LET message == JsonLoads(json_message)
        line == Get(message, "line")
        rc == Get(message, "exit")
    IN  IF Truthy(line)
        THEN [prints |-> << <<sanitize_line(line[1])>> >>, done |-> FALSE, raised |-> <<>>]
        ELSE IF rc = <<>> \/ rc[1] = 0
        THEN [prints |-> <<>>, done |-> TRUE, raised |-> <<>>]
        ELSE [prints |-> << <<"process exited with", rc[1]>> >>,
              done |-> FALSE, raised |-> <<rc[1]>>]

\* Line 36 testing `if rc:` in place of `if rc is not None:`: the exit status
\* 0, being falsy, is taken for no exit status and the loop goes on.
client_on_message_zero_is_no_exit(json_message) ==
    LET message == JsonLoads(json_message)
        line == Get(message, "line")
        rc == Get(message, "exit")
    IN  IF Truthy(line)
        THEN [prints |-> << <<sanitize_line(line[1])>> >>, done |-> FALSE, raised |-> <<>>]
        ELSE IF rc /= <<>> /\ rc[1] /= 0
        THEN [prints |-> << <<"process exited with", rc[1]>> >>,
              done |-> FALSE, raised |-> <<rc[1]>>]
        ELSE [prints |-> <<>>, done |-> FALSE, raised |-> <<>>]

\* client.py on_message: what it prints (a list of print calls, each the tuple
\* of its arguments), what it returns (done: True; False and None are both
\* "go on") and what it raises (the argument of ProcessFailed, or <<>>).
client_on_message(json_message) ==
    LET message == JsonLoads(json_message)
        line == Get(message, "line")
        rc == Get(message, "exit")
    IN  IF Truthy(line)
        THEN [prints |-> << <<sanitize_line(line[1])>> >>, done |-> FALSE, raised |-> <<>>]
        ELSE IF rc /= <<>>
        THEN IF rc[1] = 0
             THEN [prints |-> <<>>, done |-> TRUE, raised |-> <<>>]
             ELSE [prints |-> << <<"process exited with", rc[1]>> >>,
                   done |-> FALSE, raised |-> <<rc[1]>>]
        ELSE [prints |-> <<>>, done |-> FALSE, raised |-> <<>>]

\* client.py client_loop, lines 46-51: the request, as JSON.
RequestJson(cmd, working_dir, env) ==
    JsonDumps([cmd |-> cmd, working_dir |-> working_dir, env |-> env],
              <<"cmd", "working_dir", "env">>)

\* subprocess.Popen.poll(): the exit status once the child has exited, else None.
Poll(ch) == IF ch.state = "exited" THEN <<ch.rc>> ELSE <<>>

\* Whether bytes are UTF-8 (one- and two-byte sequences).
RECURSIVE ValidUtf8(_)
ValidUtf8(b) ==
    IF b = <<>> THEN TRUE
    ELSE IF b[1] < 128 THEN ValidUtf8(Tail(b))
    ELSE IF b[1] \in 194..223 /\ Len(b) >= 2 /\ b[2] \in 128..191
         THEN ValidUtf8(Tail(Tail(b)))
    ELSE FALSE

\* Mutant of Decode: line.decode() without errors="replace" raises
\* UnicodeDecodeError (<<>>) on bytes that are not UTF-8.
Decode_strict(line) == IF ValidUtf8(line) THEN <<Utf8DecodeReplace(line)>> ELSE <<>>

\* server.py run_cmd, line 33: line.decode(errors="replace"), the text, or <<>>
\* when decoding raises; with errors="replace" it never does.
Decode(line) == <<Utf8DecodeReplace(line)>>

\* server.py run_cmd, lines 28 and 33: the two messages the server builds.
ExitMessage(returncode) == [exit |-> returncode]
LineMessage(line) == [line |-> Decode(line)[1]]

\* ------------------------------------------------------------------- state
VARIABLES
    active,      \* the connections of this run
    request,     \* per connection: the caller's (cmd, working_dir, env)
    cliPc,       \* client: "start", "send", "recv", "returned", "failed", "transport_error"
    cliExc,      \* client: the argument of the ProcessFailed raised, or <<>>
    stdout,      \* client: the print calls made so far
    recvLog,     \* client: the messages received so far (decoded)
    conn,        \* the websocket: "none", "open", "closed"
    c2s,         \* frames from client to server, not yet read by the handler
    s2c,         \* frames from server to client, not yet returned by recv()
    srvPc,       \* handler: "idle", "recv", "poll", "readline", "send_line", "send_exit", "done", "crashed"
    srvMsg,      \* handler: run_cmd's local `message`
    loopOwner,   \* the handler running on the server's event loop (0: none); it keeps
                 \* the loop from one await to the next
    child,       \* per connection: the child process started for it
    pipe,        \* per connection: lines written by the child, not yet read
    written,     \* history: every line the child wrote
    sentLog,     \* history: every message the server sent
    nConnect,    \* history: websockets.connect calls of the client
    nSent,       \* history: requests the client sent
    nReq,        \* history: requests the handler received
    nSpawn,      \* history: child processes the handler started
    dropped,     \* history: the network dropped the connection
    serving,     \* the server process runs (main, line 46: loop.run_forever())
    servedBefore \* history, per connection: the connections whose ExitEvent had
                 \* been sent when the server accepted this one

\* run-ci.py, `check --nightly`: run_tests_in_browser_ten_times under main.
VARIABLES
    nightlyPc,   \* "idle", "round", "after_loop", "main", "exited"
    round,       \* the loop variable i (0 before the loop)
    ran,         \* the rounds run so far, in order
    outcomes,    \* how each of them ended
    failures,    \* the list `failures`
    escaped,     \* the exception on its way out of _main, or <<>>
    exitCode     \* the exit status of the run-ci.py process, or <<>>

\* ci/deploy.py (and run-ci.py `deploy`): deploy_sdk.
VARIABLES
    deployPc,    \* "idle", "build", "publish", "done", "failed"
    configs,     \* the list `configs` (<<>> before it is set)
    cfg,         \* the position of `config` in configs
    pkg,         \* the position of `package_name` in config["publish"]
    deployLog    \* the commands run so far: [step, name, ok]

\* ci/check.py: run_tests_in_browser.
VARIABLES
    browserPc,     \* "idle", "karma", "killall", "delete_state", "popen",
                   \* "finally", "returned", "raised"
    runner,        \* the argument `runner` ("" before the call)
    safari,        \* the Safari process: "running", "signalled", "gone"
    safariState,   \* whether ~/Library/Safari exists
    safari_awaker, \* the keep-safari-awake process: "none", "running", "exited", "killed"
    karma,         \* how karma ended, or <<>>
    browserSteps   \* the steps of run_tests_in_browser taken so far

relayVars == <<active, request, cliPc, cliExc, stdout, recvLog, conn, c2s, s2c, srvPc,
               srvMsg, loopOwner, child, pipe, written, sentLog, nConnect, nSent, nReq,
               nSpawn, dropped, serving, servedBefore>>
nightlyVars == <<nightlyPc, round, ran, outcomes, failures, escaped, exitCode>>
deployVars == <<deployPc, configs, cfg, pkg, deployLog>>
browserVars == <<browserPc, runner, safari, safariState, safari_awaker, karma, browserSteps>>
ciVars == <<nightlyVars, deployVars, browserVars>>
vars == <<relayVars, ciVars>>

cliVars == <<cliPc, cliExc, stdout, recvLog, nConnect, nSent>>
srvVars == <<srvPc, srvMsg, loopOwner, sentLog, nReq, nSpawn>>
childVars == <<child, pipe, written>>

NoChild == [state |-> "none", todo |-> <<>>, closes |-> FALSE, holder |-> FALSE,
            rc |-> 0, cwd |-> ".", env |-> [x \in {} |-> ""], proc |-> 0]
NoMessage == [x \in {} |-> 0]
\* The requests of one invocation: any command; PROJECT_CONFIG is passed with
\* /work, the empty environment with the other directories.
Requests ==
    {r \in [cmd : Cmds, working_dir : Dirs, env : Envs] :
        (r.working_dir = "/work") <=> (DOMAIN r.env /= {})}
IdleRequest == [cmd |-> EmptyCmd, working_dir |-> ".", env |-> [x \in {} |-> ""]]

InitWith(conns, r) ==
    /\ active = conns
    /\ request = [c \in Conns |-> IF c \in conns THEN r[c] ELSE IdleRequest]
    /\ cliPc = [c \in Conns |-> "start"]
    /\ cliExc = [c \in Conns |-> <<>>]
    /\ stdout = [c \in Conns |-> <<>>]
    /\ recvLog = [c \in Conns |-> <<>>]
    /\ conn = [c \in Conns |-> "none"]
    /\ c2s = [c \in Conns |-> <<>>]
    /\ s2c = [c \in Conns |-> <<>>]
    /\ srvPc = [c \in Conns |-> "idle"]
    /\ srvMsg = [c \in Conns |-> NoMessage]
    /\ loopOwner = 0
    /\ child = [c \in Conns |-> NoChild]
    /\ pipe = [c \in Conns |-> <<>>]
    /\ written = [c \in Conns |-> <<>>]
    /\ sentLog = [c \in Conns |-> <<>>]
    /\ nConnect = [c \in Conns |-> 0]
    /\ nSent = [c \in Conns |-> 0]
    /\ nReq = [c \in Conns |-> 0]
    /\ nSpawn = [c \in Conns |-> 0]
    /\ dropped = [c \in Conns |-> FALSE]
    /\ serving = TRUE
    /\ servedBefore = [c \in Conns |-> {}]
    /\ nightlyPc = "idle"
    /\ round = 0
    /\ ran = <<>>
    /\ outcomes = <<>>
    /\ failures = <<>>
    /\ escaped = <<>>
    /\ exitCode = <<>>
    /\ deployPc = "idle"
    /\ configs = <<>>
    /\ cfg = 0
    /\ pkg = 0
    /\ deployLog = <<>>
    /\ browserPc = "idle"
    /\ runner = ""
    /\ safari = "gone"
    /\ safariState = FALSE
    /\ safari_awaker = "none"
    /\ karma = <<>>
    /\ browserSteps = <<>>

\* One client invocation against the server.
Init == \E r \in [{1} -> Requests] : InitWith({1}, r)

\* ------------------------------------------------------------------ client
\* client_loop, line 45: websockets.connect opens the one connection.
ClientConnect(c) ==
    /\ c \in active
    /\ cliPc[c] = "start"
    /\ conn[c] = "none"
    /\ conn' = [conn EXCEPT ![c] = "open"]
    /\ nConnect' = [nConnect EXCEPT ![c] = @ + 1]
    /\ cliPc' = [cliPc EXCEPT ![c] = "send"]
    /\ UNCHANGED <<ciVars, active, request, serving, servedBefore, cliExc, stdout, recvLog,
                   nSent, c2s, s2c, dropped>>
    /\ UNCHANGED <<srvVars, childVars>>

\* Mutant of ClientSend: the request is sent twice.
ClientSend_twice(c) ==
    /\ c \in active
    /\ cliPc[c] = "send"
    /\ IF conn[c] = "open"
       THEN /\ LET json_message == RequestJson(request[c].cmd, request[c].working_dir,
                                               request[c].env)
               IN  c2s' = [c2s EXCEPT ![c] = Append(Append(@, json_message), json_message)]
            /\ nSent' = [nSent EXCEPT ![c] = @ + 2]
            /\ cliPc' = [cliPc EXCEPT ![c] = "recv"]
       ELSE /\ cliPc' = [cliPc EXCEPT ![c] = "transport_error"]
            /\ UNCHANGED <<c2s, nSent>>
    /\ UNCHANGED <<ciVars, active, request, serving, servedBefore, cliExc, stdout, recvLog,
                   nConnect, conn, s2c, dropped>>
    /\ UNCHANGED <<srvVars, childVars>>

\* client_loop, lines 46-52: build the request and send it; send() raises
\* ConnectionClosed on a closed connection, which leaves client_loop.
ClientSend(c) ==
    /\ c \in active
    /\ cliPc[c] = "send"
    /\ IF conn[c] = "open"
       THEN /\ c2s' = [c2s EXCEPT ![c] =
                          Append(@, RequestJson(request[c].cmd, request[c].working_dir,
                                                request[c].env))]
            /\ nSent' = [nSent EXCEPT ![c] = @ + 1]
            /\ cliPc' = [cliPc EXCEPT ![c] = "recv"]
       ELSE /\ cliPc' = [cliPc EXCEPT ![c] = "transport_error"]
            /\ UNCHANGED <<c2s, nSent>>
    /\ UNCHANGED <<ciVars, active, request, serving, servedBefore, cliExc, stdout, recvLog,
                   nConnect, conn, s2c, dropped>>
    /\ UNCHANGED <<srvVars, childVars>>

\* Mutant of ClientRecv: a failed command is retried (the request is sent
\* again and the loop goes on) instead of raising ProcessFailed.
ClientRecv_retry(c) ==
    /\ c \in active
    /\ cliPc[c] = "recv"
    /\ s2c[c] /= <<>>
    /\ LET json_message == Head(s2c[c])
           r == client_on_message(json_message)
       IN  /\ s2c' = [s2c EXCEPT ![c] = Tail(@)]
           /\ recvLog' = [recvLog EXCEPT ![c] = Append(@, JsonLoads(json_message))]
           /\ stdout' = [stdout EXCEPT ![c] = @ \o r.prints]
           /\ cliExc' = cliExc
           /\ cliPc' = [cliPc EXCEPT ![c] = IF r.done THEN "returned" ELSE "recv"]
           /\ conn' = [conn EXCEPT ![c] = IF r.done THEN "closed" ELSE @]
           /\ IF r.raised /= <<>> /\ nSent[c] < 2
              THEN /\ c2s' = [c2s EXCEPT ![c] =
                                 Append(@, RequestJson(request[c].cmd,
                                                       request[c].working_dir,
                                                       request[c].env))]
                   /\ nSent' = [nSent EXCEPT ![c] = @ + 1]
              ELSE UNCHANGED <<c2s, nSent>>
    /\ UNCHANGED <<ciVars, active, request, serving, servedBefore, nConnect, dropped>>
    /\ UNCHANGED <<srvVars, childVars>>

\* Mutant of ClientRecv: line 56-57's return is missing, the loop goes on
\* receiving after on_message said the exchange is done.
ClientRecv_goes_on(c) ==
    /\ c \in active
    /\ cliPc[c] = "recv"
    /\ s2c[c] /= <<>>
    /\ LET json_message == Head(s2c[c])
           r == client_on_message(json_message)
       IN  /\ s2c' = [s2c EXCEPT ![c] = Tail(@)]
           /\ recvLog' = [recvLog EXCEPT ![c] = Append(@, JsonLoads(json_message))]
           /\ stdout' = [stdout EXCEPT ![c] = @ \o r.prints]
           /\ cliExc' = [cliExc EXCEPT ![c] = r.raised]
           /\ cliPc' = [cliPc EXCEPT ![c] = IF r.raised /= <<>> THEN "failed" ELSE "recv"]
           /\ conn' = [conn EXCEPT ![c] = IF r.raised /= <<>> THEN "closed" ELSE @]
    /\ UNCHANGED <<ciVars, active, request, serving, servedBefore, nConnect, nSent, c2s, dropped>>
    /\ UNCHANGED <<srvVars, childVars>>

\* client_loop, lines 53-57: recv() returns the next frame and on_message
\* decides; leaving the `async with` block (return or ProcessFailed) closes
\* the connection.
ClientRecv(c) ==
    /\ c \in active
    /\ cliPc[c] = "recv"
    /\ s2c[c] /= <<>>
    /\ LET json_message == Head(s2c[c])
           r == client_on_message(json_message)
       IN  /\ s2c' = [s2c EXCEPT ![c] = Tail(@)]
           /\ recvLog' = [recvLog EXCEPT ![c] = Append(@, JsonLoads(json_message))]
           /\ stdout' = [stdout EXCEPT ![c] = @ \o r.prints]
           /\ cliExc' = [cliExc EXCEPT ![c] = r.raised]
           /\ cliPc' = [cliPc EXCEPT ![c] =
                           IF r.raised /= <<>> THEN "failed"
                           ELSE IF r.done THEN "returned" ELSE "recv"]
           /\ conn' = [conn EXCEPT ![c] =
                          IF r.raised /= <<>> \/ r.done THEN "closed" ELSE @]
    /\ UNCHANGED <<ciVars, active, request, serving, servedBefore, nConnect, nSent, c2s, dropped>>
    /\ UNCHANGED <<srvVars, childVars>>

\* Mutant of ClientConnectionClosed: the client connects again and resends.
ClientConnectionClosed_reconnect(c) ==
    /\ c \in active
    /\ cliPc[c] = "recv"
    /\ s2c[c] = <<>>
    /\ conn[c] = "closed"
    /\ nConnect[c] < 2
    /\ cliPc' = [cliPc EXCEPT ![c] = "send"]
    /\ conn' = [conn EXCEPT ![c] = "open"]
    /\ nConnect' = [nConnect EXCEPT ![c] = @ + 1]
    /\ UNCHANGED <<ciVars, active, request, serving, servedBefore, cliExc, stdout, recvLog,
                   nSent, c2s, s2c, dropped>>
    /\ UNCHANGED <<srvVars, childVars>>

\* client_loop, line 54: with no frame left and the connection closed, recv()
\* raises ConnectionClosed, which nothing catches.
ClientConnectionClosed(c) ==
    /\ c \in active
    /\ cliPc[c] = "recv"
    /\ s2c[c] = <<>>
    /\ conn[c] = "closed"
    /\ cliPc' = [cliPc EXCEPT ![c] = "transport_error"]
    /\ UNCHANGED <<ciVars, active, request, serving, servedBefore, cliExc, stdout, recvLog,
                   nConnect, nSent, conn, c2s, s2c, dropped>>
    /\ UNCHANGED <<srvVars, childVars>>

\* ------------------------------------------------------------------ server
\* The event loop runs one handler at a time, as long as the server process runs.
LoopFree(c) == serving /\ loopOwner \in {0, c}

\* main, lines 44-45: websockets.serve starts socket_handler for a connection.
ServerAccept(c) ==
    /\ c \in active
    /\ srvPc[c] = "idle"
    /\ conn[c] = "open"
    /\ LoopFree(c)
    /\ srvPc' = [srvPc EXCEPT ![c] = "recv"]
    /\ loopOwner' = 0
    /\ servedBefore' = [servedBefore EXCEPT ![c] =
                            {d \in Conns : \E i \in DOMAIN sentLog[d] :
                                               "exit" \in DOMAIN sentLog[d][i]}]
    /\ UNCHANGED <<ciVars, active, request, serving, conn, c2s, s2c, dropped, srvMsg, sentLog,
                   nReq, nSpawn>>
    /\ UNCHANGED <<cliVars, childVars>>

\* Mutant of Popen: the child inherits the server's environment, and the
\* request's variables are added to it.
Popen_inherits(cmd, working_dir, env) ==
    IF working_dir \in ExistingDirs
    THEN << [state |-> "running", todo |-> cmd.out, closes |-> cmd.closes,
             holder |-> cmd.detaches, rc |-> cmd.rc, cwd |-> working_dir,
             env |-> [k \in DOMAIN env \cup DOMAIN ServerEnv |->
                         IF k \in DOMAIN env THEN env[k] ELSE ServerEnv[k]],
             proc |-> 0] >>
    ELSE <<>>

\* subprocess.Popen(cmd, shell=True, cwd=working_dir, env=env): the child, or
\* nothing when cwd does not exist (Popen raises FileNotFoundError).  An env
\* that is not None replaces the server's environment.  `holder`: a background
\* process of the command holds the write end of the pipe; `proc` numbers the
\* processes (set by the caller).
Popen(cmd, working_dir, env) ==
    IF working_dir \in ExistingDirs
    THEN << [state |-> "running", todo |-> cmd.out, closes |-> cmd.closes,
             holder |-> cmd.detaches, rc |-> cmd.rc, cwd |-> working_dir,
             env |-> env, proc |-> 0] >>
    ELSE <<>>

\* The child processes started so far, over all connections.
RECURSIVE Spawned(_)
Spawned(S) ==
    IF S = {} THEN 0
    ELSE LET c == CHOOSE x \in S : TRUE IN nSpawn[c] + Spawned(S \ {c})

\* Mutant of ServerOnMessage: the server keeps the working directory and the
\* environment of the child it started last, and starts the next child with them.
ServerOnMessage_leaks(c) ==
    /\ c \in active
    /\ srvPc[c] = "recv"
    /\ c2s[c] /= <<>>
    /\ LoopFree(c)
    /\ LET message == JsonLoads(Head(c2s[c]))
           earlier == {d \in Conns \ {c} : child[d].state /= "none"}
           last == CHOOSE d \in earlier : TRUE
           process == IF earlier = {}
                      THEN Popen(message["cmd"], message["working_dir"], message["env"])
                      ELSE Popen(message["cmd"], child[last].cwd, child[last].env)
       IN  /\ c2s' = [c2s EXCEPT ![c] = Tail(@)]
           /\ nReq' = [nReq EXCEPT ![c] = @ + 1]
           /\ IF process /= <<>>
              THEN /\ child' = [child EXCEPT ![c] =
                                    [process[1] EXCEPT !.proc = Spawned(Conns) + 1]]
                   /\ pipe' = [pipe EXCEPT ![c] = <<>>]
                   /\ written' = [written EXCEPT ![c] = <<>>]
                   /\ nSpawn' = [nSpawn EXCEPT ![c] = @ + 1]
                   /\ srvPc' = [srvPc EXCEPT ![c] = "poll"]
                   /\ loopOwner' = c
                   /\ UNCHANGED conn
              ELSE /\ srvPc' = [srvPc EXCEPT ![c] = "crashed"]
                   /\ conn' = [conn EXCEPT ![c] = "closed"]
                   /\ loopOwner' = 0
                   /\ UNCHANGED <<child, pipe, written, nSpawn>>
    /\ UNCHANGED <<ciVars, active, request, serving, servedBefore, s2c, dropped, srvMsg, sentLog>>
    /\ UNCHANGED cliVars

\* socket_handler line 38, on_message lines 9-13, run_cmd lines 17-23: take the
\* next frame and start the child.  An exception leaves the handler, and
\* websockets then closes the connection (1011).
ServerOnMessage(c) ==
    /\ c \in active
    /\ srvPc[c] = "recv"
    /\ c2s[c] /= <<>>
    /\ LoopFree(c)
    /\ LET message == JsonLoads(Head(c2s[c]))
           process == Popen(message["cmd"], message["working_dir"], message["env"])
       IN  /\ c2s' = [c2s EXCEPT ![c] = Tail(@)]
           /\ nReq' = [nReq EXCEPT ![c] = @ + 1]
           /\ IF process /= <<>>
              THEN /\ child' = [child EXCEPT ![c] =
                                    [process[1] EXCEPT !.proc = Spawned(Conns) + 1]]
                   /\ pipe' = [pipe EXCEPT ![c] = <<>>]
                   /\ written' = [written EXCEPT ![c] = <<>>]
                   /\ nSpawn' = [nSpawn EXCEPT ![c] = @ + 1]
                   /\ srvPc' = [srvPc EXCEPT ![c] = "poll"]
                   /\ loopOwner' = c
                   /\ UNCHANGED conn
              ELSE /\ srvPc' = [srvPc EXCEPT ![c] = "crashed"]
                   /\ conn' = [conn EXCEPT ![c] = "closed"]
                   /\ loopOwner' = 0
                   /\ UNCHANGED <<child, pipe, written, nSpawn>>
    /\ UNCHANGED <<ciVars, active, request, serving, servedBefore, s2c, dropped, srvMsg, sentLog>>
    /\ UNCHANGED cliVars

\* socket_handler, line 38: the iteration ends when the connection is closed
\* and no frame is left.
ServerConnectionClosed(c) ==
    /\ c \in active
    /\ srvPc[c] = "recv"
    /\ c2s[c] = <<>>
    /\ conn[c] = "closed"
    /\ LoopFree(c)
    /\ srvPc' = [srvPc EXCEPT ![c] = "done"]
    /\ loopOwner' = 0
    /\ UNCHANGED <<ciVars, active, request, serving, servedBefore, conn, c2s, s2c, dropped,
                   srvMsg, sentLog, nReq, nSpawn>>
    /\ UNCHANGED <<cliVars, childVars>>

IsLine(m) == "line" \in DOMAIN m
IsExit(m) == "exit" \in DOMAIN m

\* The empty OutputEvents sent so far on c.
EofSent(c) == Cardinality({i \in DOMAIN sentLog[c] :
                              IsLine(sentLog[c][i]) /\ sentLog[c][i].line = <<>>})

\* Mutant of ServerPoll: the server process exits with the status of a child
\* that failed.
ServerPoll_exit_on_failure(c) ==
    /\ c \in active
    /\ srvPc[c] = "poll"
    /\ LoopFree(c)
    /\ ~(child[c].state = "closed" /\ pipe[c] = <<>> /\ EofSent(c) >= MaxEofReads)
    /\ LET returncode == Poll(child[c])
       IN  IF returncode /= <<>>
           THEN /\ srvMsg' = [srvMsg EXCEPT ![c] = ExitMessage(returncode[1])]
                /\ srvPc' = [srvPc EXCEPT ![c] = "send_exit"]
                /\ serving' = (returncode[1] = 0)
           ELSE /\ srvPc' = [srvPc EXCEPT ![c] = "readline"]
                /\ UNCHANGED <<srvMsg, serving>>
    /\ loopOwner' = c
    /\ UNCHANGED <<ciVars, active, request, servedBefore, conn, c2s, s2c, dropped,
                   sentLog, nReq, nSpawn>>
    /\ UNCHANGED <<cliVars, childVars>>

\* run_cmd, lines 25-28: poll the child; an exit status makes the ExitEvent.
\* (The guard only bounds the model: see MaxEofReads.)
ServerPoll(c) ==
    /\ c \in active
    /\ srvPc[c] = "poll"
    /\ LoopFree(c)
    /\ ~(child[c].state = "closed" /\ pipe[c] = <<>> /\ EofSent(c) >= MaxEofReads)
    /\ LET returncode == Poll(child[c])
       IN  IF returncode /= <<>>
           THEN /\ srvMsg' = [srvMsg EXCEPT ![c] = ExitMessage(returncode[1])]
                /\ srvPc' = [srvPc EXCEPT ![c] = "send_exit"]
           ELSE /\ srvPc' = [srvPc EXCEPT ![c] = "readline"]
                /\ UNCHANGED srvMsg
    /\ loopOwner' = c
    /\ UNCHANGED <<ciVars, active, request, serving, servedBefore, conn, c2s, s2c, dropped,
                   sentLog, nReq, nSpawn>>
    /\ UNCHANGED <<cliVars, childVars>>

\* End-of-file on the pipe: every process holding its write end has closed it
\* (the child closed its output or exited, and no background process of the
\* command holds it).
Eof(c) == child[c].state \in {"closed", "exited"} /\ ~child[c].holder

\* process.stdout.readline(): the next line of the pipe; b"" at end-of-file;
\* blocks otherwise.
ReadlineReady(c) == pipe[c] /= <<>> \/ Eof(c)
\* Mutant of Readline: the newest line of the pipe is returned, not the oldest.
Readline_newest(c) == IF pipe[c] /= <<>> THEN pipe[c][Len(pipe[c])] ELSE <<>>
Readline(c) == IF pipe[c] /= <<>> THEN Head(pipe[c]) ELSE <<>>

\* Mutant of ServerReadline: the line read is kept back, the loop polls again
\* without sending it.
ServerReadline_buffers(c) ==
    /\ c \in active
    /\ srvPc[c] = "readline"
    /\ LoopFree(c)
    /\ ReadlineReady(c)
    /\ pipe' = [pipe EXCEPT ![c] = IF @ /= <<>> THEN Tail(@) ELSE @]
    /\ srvMsg' = [srvMsg EXCEPT ![c] = LineMessage(Readline(c))]
    /\ srvPc' = [srvPc EXCEPT ![c] = "poll"]
    /\ loopOwner' = c
    /\ UNCHANGED <<ciVars, active, request, serving, servedBefore, conn, c2s, s2c, dropped,
                   sentLog, nReq, nSpawn>>
    /\ UNCHANGED <<cliVars, child, written>>

\* run_cmd, lines 32-33: the blocking read (the event loop is held meanwhile)
\* and the OutputEvent made of what it returned.  An exception of the decoding
\* would leave the handler, and websockets would close the connection.
ServerReadline(c) ==
    /\ c \in active
    /\ srvPc[c] = "readline"
    /\ LoopFree(c)
    /\ ReadlineReady(c)
    /\ pipe' = [pipe EXCEPT ![c] = IF @ /= <<>> THEN Tail(@) ELSE @]
    /\ IF Decode(Readline(c)) /= <<>>
       THEN /\ srvMsg' = [srvMsg EXCEPT ![c] = LineMessage(Readline(c))]
            /\ srvPc' = [srvPc EXCEPT ![c] = "send_line"]
            /\ loopOwner' = c
            /\ UNCHANGED conn
       ELSE /\ srvPc' = [srvPc EXCEPT ![c] = "crashed"]
            /\ conn' = [conn EXCEPT ![c] = "closed"]
            /\ loopOwner' = 0
            /\ UNCHANGED srvMsg
    /\ UNCHANGED <<ciVars, active, request, serving, servedBefore, c2s, s2c, dropped,
                   sentLog, nReq, nSpawn>>
    /\ UNCHANGED <<cliVars, child, written>>

\* Mutant of AfterSend: line 30's return is missing, the loop goes on.
AfterSend_no_return(pc) == "poll"

\* Where run_cmd goes after a send: line 30 returns to socket_handler's
\* iteration after the ExitEvent, line 34 loops.
AfterSend(pc) == IF pc = "send_exit" THEN "recv" ELSE "poll"

\* Mutant of ServerSend: the handlers share one websocket variable, the one
\* of another connection under way if there is one, and send on it.
ServerSend_shared(c) ==
    /\ c \in active
    /\ srvPc[c] \in {"send_line", "send_exit"}
    /\ LoopFree(c)
    /\ LET others == {d \in active \ {c} : conn[d] = "open" /\ srvPc[d] /= "idle"}
           websocket == IF others = {} THEN c ELSE CHOOSE d \in others : TRUE
       IN  IF conn[c] = "open"
           THEN /\ s2c' = [s2c EXCEPT ![websocket] =
                              Append(@, JsonDumps(srvMsg[c], IF IsExit(srvMsg[c])
                                                             THEN <<"exit">> ELSE <<"line">>))]
                /\ sentLog' = [sentLog EXCEPT ![websocket] = Append(@, srvMsg[c])]
                /\ srvPc' = [srvPc EXCEPT ![c] = AfterSend(srvPc[c])]
           ELSE /\ srvPc' = [srvPc EXCEPT ![c] = "crashed"]
                /\ UNCHANGED <<s2c, sentLog>>
    /\ loopOwner' = 0
    /\ UNCHANGED <<ciVars, active, request, serving, servedBefore, conn, c2s, dropped, srvMsg,
                   nReq, nSpawn>>
    /\ UNCHANGED <<cliVars, childVars>>

\* run_cmd, lines 29 and 34: await websocket.send(json.dumps(message)); it
\* raises ConnectionClosed on a closed connection, which leaves the handler.
\* The await gives the loop to other handlers.
ServerSend(c) ==
    /\ c \in active
    /\ srvPc[c] \in {"send_line", "send_exit"}
    /\ LoopFree(c)
    /\ IF conn[c] = "open"
       THEN /\ s2c' = [s2c EXCEPT ![c] =
                          Append(@, JsonDumps(srvMsg[c], IF IsExit(srvMsg[c])
                                                         THEN <<"exit">> ELSE <<"line">>))]
            /\ sentLog' = [sentLog EXCEPT ![c] = Append(@, srvMsg[c])]
            /\ srvPc' = [srvPc EXCEPT ![c] = AfterSend(srvPc[c])]
       ELSE /\ srvPc' = [srvPc EXCEPT ![c] = "crashed"]
            /\ UNCHANGED <<s2c, sentLog>>
    /\ loopOwner' = 0
    /\ UNCHANGED <<ciVars, active, request, serving, servedBefore, conn, c2s, dropped, srvMsg,
                   nReq, nSpawn>>
    /\ UNCHANGED <<cliVars, childVars>>

\* ------------------------------------------------------------------- child
\* The child writes its next line to the pipe.
ChildWrite(c) ==
    /\ c \in active
    /\ child[c].state = "running"
    /\ child[c].todo /= <<>>
    /\ pipe' = [pipe EXCEPT ![c] = Append(@, Head(child[c].todo))]
    /\ written' = [written EXCEPT ![c] = Append(@, Head(child[c].todo))]
    /\ child' = [child EXCEPT ![c].todo = Tail(@)]
    /\ UNCHANGED <<ciVars, active, request, serving, servedBefore, conn, c2s, s2c, dropped>>
    /\ UNCHANGED <<cliVars, srvVars>>

\* The child closes its output and goes on running.
ChildCloseOutput(c) ==
    /\ c \in active
    /\ child[c].state = "running"
    /\ child[c].todo = <<>>
    /\ child[c].closes
    /\ child' = [child EXCEPT ![c].state = "closed"]
    /\ UNCHANGED <<ciVars, active, request, serving, servedBefore, conn, c2s, s2c, dropped,
                   pipe, written>>
    /\ UNCHANGED <<cliVars, srvVars>>

\* The child exits with its status; its end of the pipe is closed with it.
ChildExit(c) ==
    /\ c \in active
    /\ \/ child[c].state = "running" /\ child[c].todo = <<>> /\ ~child[c].closes
       \/ child[c].state = "closed"
    /\ child' = [child EXCEPT ![c].state = "exited"]
    /\ UNCHANGED <<ciVars, active, request, serving, servedBefore, conn, c2s, s2c, dropped,
                   pipe, written>>
    /\ UNCHANGED <<cliVars, srvVars>>

\* A background process of the command, which outlives the child and holds the
\* write end of the pipe, ends (if it ever does); the write end is closed with it.
BackgroundExit(c) ==
    /\ c \in active
    /\ child[c].state = "exited"
    /\ child[c].holder
    /\ child' = [child EXCEPT ![c].holder = FALSE]
    /\ UNCHANGED <<ciVars, active, request, serving, servedBefore, conn, c2s, s2c, dropped,
                   pipe, written>>
    /\ UNCHANGED <<cliVars, srvVars>>

\* ----------------------------------------------------------------- network
Prefixes(q) == {SubSeq(q, 1, n) : n \in 0..Len(q)}

\* The connection is dropped: frames still in flight are lost, frames that
\* arrived stay readable.
Drop(c) ==
    /\ c \in active
    /\ conn[c] = "open"
    /\ conn' = [conn EXCEPT ![c] = "closed"]
    /\ dropped' = [dropped EXCEPT ![c] = TRUE]
    /\ \E q \in Prefixes(s2c[c]) : s2c' = [s2c EXCEPT ![c] = q]
    /\ \E q \in Prefixes(c2s[c]) : c2s' = [c2s EXCEPT ![c] = q]
    /\ UNCHANGED <<ciVars, active, request, serving, servedBefore>>
    /\ UNCHANGED <<cliVars, srvVars, childVars>>

Next ==
    \/ \E c \in Conns : ClientConnect(c)
    \/ \E c \in Conns : ClientSend(c)
    \/ \E c \in Conns : ClientRecv(c)
    \/ \E c \in Conns : ClientConnectionClosed(c)
    \/ \E c \in Conns : ServerAccept(c)
    \/ \E c \in Conns : ServerOnMessage(c)
    \/ \E c \in Conns : ServerConnectionClosed(c)
    \/ \E c \in Conns : ServerPoll(c)
    \/ \E c \in Conns : ServerReadline(c)
    \/ \E c \in Conns : ServerSend(c)
    \/ \E c \in Conns : ChildWrite(c)
    \/ \E c \in Conns : ChildCloseOutput(c)
    \/ \E c \in Conns : ChildExit(c)
    \/ \E c \in Conns : BackgroundExit(c)
    \/ \E c \in Conns : Drop(c)

Spec == Init /\ [][Next]_vars

\* Two client invocations against the same server, one after the other or at
\* the same time, on a reliable network.  Connection 1 runs a command that
\* writes "A" in the server's directory or in a missing one, with an empty
\* environment; connection 2 one that writes "e-acute" and exits with 7, in
\* /work with PROJECT_CONFIG set.
RequestsOne ==
    [cmd : [text : {NonEmptyText}, out : {<<LineA>>}, closes : BOOLEAN,
            detaches : {FALSE}, rc : {0, -9}],
     working_dir : {".", "/missing"},
     env : {[x \in {} |-> ""]}]
RequestsTwo ==
    [cmd : [text : {NonEmptyText}, out : {<<LineEacute>>}, closes : {FALSE},
            detaches : {FALSE}, rc : {7}],
     working_dir : {"/work"},
     env : {[PROJECT_CONFIG |-> "dev"]}]

InitTwo ==
    \E r1 \in RequestsOne, r2 \in RequestsTwo : InitWith({1, 2}, <<r1, r2>>)

NextReliable ==
    \/ \E c \in Conns : ClientConnect(c)
    \/ \E c \in Conns : ClientSend(c)
    \/ \E c \in Conns : ClientRecv(c)
    \/ \E c \in Conns : ClientConnectionClosed(c)
    \/ \E c \in Conns : ServerAccept(c)
    \/ \E c \in Conns : ServerOnMessage(c)
    \/ \E c \in Conns : ServerConnectionClosed(c)
    \/ \E c \in Conns : ServerPoll(c)
    \/ \E c \in Conns : ServerReadline(c)
    \/ \E c \in Conns : ServerSend(c)
    \/ \E c \in Conns : ChildWrite(c)
    \/ \E c \in Conns : ChildCloseOutput(c)
    \/ \E c \in Conns : ChildExit(c)

SpecTwo == InitTwo /\ [][NextReliable]_vars

\* One client invocation on a reliable network, under fair scheduling: the
\* client, the server's event loop and the child take their steps when they
\* can.  A background process of the command may go on for ever.
NextLive ==
    \/ \E c \in Conns : ClientConnect(c)
    \/ \E c \in Conns : ClientSend(c)
    \/ \E c \in Conns : ClientRecv(c)
    \/ \E c \in Conns : ClientConnectionClosed(c)
    \/ \E c \in Conns : ServerAccept(c)
    \/ \E c \in Conns : ServerOnMessage(c)
    \/ \E c \in Conns : ServerConnectionClosed(c)
    \/ \E c \in Conns : ServerPoll(c)
    \/ \E c \in Conns : ServerReadline(c)
    \/ \E c \in Conns : ServerSend(c)
    \/ \E c \in Conns : ChildWrite(c)
    \/ \E c \in Conns : ChildCloseOutput(c)
    \/ \E c \in Conns : ChildExit(c)
    \/ \E c \in Conns : BackgroundExit(c)

Fairness ==
    \A c \in Conns :
        /\ WF_vars(ClientConnect(c))
        /\ WF_vars(ClientSend(c))
        /\ WF_vars(ClientRecv(c))
        /\ WF_vars(ClientConnectionClosed(c))
        /\ WF_vars(ServerAccept(c))
        /\ WF_vars(ServerOnMessage(c))
        /\ WF_vars(ServerConnectionClosed(c))
        /\ WF_vars(ServerPoll(c))
        /\ WF_vars(ServerReadline(c))
        /\ WF_vars(ServerSend(c))
        /\ WF_vars(ChildWrite(c))
        /\ WF_vars(ChildCloseOutput(c))
        /\ WF_vars(ChildExit(c))

SpecLive == Init /\ [][NextLive]_vars /\ Fairness

\* ------------------------------------------------- run-ci.py check --nightly
\* run-ci.py line 97: range(1, 11).
Rounds == 10

\* How a call of run_tests_in_browser can end: it returns, a command of it
\* fails (an Exception), something in it calls sys.exit, or the job is
\* interrupted (KeyboardInterrupt is neither an Exception nor a SystemExit).
RoundOutcomes == {"ok", "Exception", "SystemExit", "KeyboardInterrupt"}
Caught == {"Exception", "SystemExit"}

\* The run-ci.py process has nothing to do with the relay, which stays as it is.
CiInit == \E r \in [{} -> Requests] : InitWith({}, r)

\* _main and check, lines 455-458 and 168-171: `check --nightly` installs the
\* dependencies and calls run_tests_in_browser_ten_times, whose line 96 starts
\* with no failure; a failed install is an exception on its way out.
NightlyStart ==
    /\ nightlyPc = "idle"
    /\ \E installed \in BOOLEAN :
          IF installed
          THEN /\ nightlyPc' = "round"
               /\ round' = 1
               /\ failures' = <<>>
               /\ UNCHANGED escaped
          ELSE /\ nightlyPc' = "main"
               /\ escaped' = <<"Exception">>
               /\ UNCHANGED <<round, failures>>
    /\ UNCHANGED <<ran, outcomes, exitCode>>
    /\ UNCHANGED <<relayVars, deployVars, browserVars>>

\* Mutant of NightlyRound: without the try/except of lines 101-104 the first
\* failure leaves the loop.
NightlyRound_no_except ==
    /\ nightlyPc = "round"
    /\ \E outcome \in RoundOutcomes :
          /\ ran' = Append(ran, round)
          /\ outcomes' = Append(outcomes, outcome)
          /\ IF outcome = "ok"
             THEN /\ nightlyPc' = IF round = Rounds THEN "after_loop" ELSE "round"
                  /\ round' = IF round = Rounds THEN round ELSE round + 1
                  /\ UNCHANGED escaped
             ELSE /\ nightlyPc' = "main"
                  /\ escaped' = <<outcome>>
                  /\ UNCHANGED round
          /\ UNCHANGED failures
    /\ UNCHANGED exitCode
    /\ UNCHANGED <<relayVars, deployVars, browserVars>>

\* Lines 97-104: one round of the loop.  An Exception or a SystemExit of
\* run_tests_in_browser is caught and the round number recorded; anything
\* else leaves the function.
NightlyRound ==
    /\ nightlyPc = "round"
    /\ \E outcome \in RoundOutcomes :
          /\ ran' = Append(ran, round)
          /\ outcomes' = Append(outcomes, outcome)
          /\ IF outcome = "ok" \/ outcome \in Caught
             THEN /\ failures' = IF outcome \in Caught
                                 THEN Append(failures, round) ELSE failures
                  /\ nightlyPc' = IF round = Rounds THEN "after_loop" ELSE "round"
                  /\ round' = IF round = Rounds THEN round ELSE round + 1
                  /\ UNCHANGED escaped
             ELSE /\ nightlyPc' = "main"
                  /\ escaped' = <<outcome>>
                  /\ UNCHANGED <<round, failures>>
    /\ UNCHANGED exitCode
    /\ UNCHANGED <<relayVars, deployVars, browserVars>>

\* Lines 106-109: after the loop, TestFailed is raised if `failures` is not empty.
NightlyAfterLoop ==
    /\ nightlyPc = "after_loop"
    /\ nightlyPc' = "main"
    /\ escaped' = IF failures /= <<>> THEN <<"TestFailed">> ELSE <<>>
    /\ UNCHANGED <<round, ran, outcomes, failures, exitCode>>
    /\ UNCHANGED <<relayVars, deployVars, browserVars>>

\* The exit status of the interpreter for what leaves main: 0 when main
\* returns; 1 for sys.exit(1) and for an exception that is re-raised; for a
\* KeyboardInterrupt 1, or 130 where the interpreter ends itself with SIGINT.
ExitStatuses(exc) ==
    IF exc = <<>> THEN {0}
    ELSE IF exc[1] = "KeyboardInterrupt" THEN {1, 130}
    ELSE {1}

\* main, lines 484-491: TestFailed becomes sys.exit(1); any other exception
\* is re-raised.
NightlyMain ==
    /\ nightlyPc = "main"
    /\ nightlyPc' = "exited"
    /\ \E status \in ExitStatuses(escaped) : exitCode' = <<status>>
    /\ UNCHANGED <<round, ran, outcomes, failures, escaped>>
    /\ UNCHANGED <<relayVars, deployVars, browserVars>>

NextNightly ==
    \/ NightlyStart
    \/ NightlyRound
    \/ NightlyAfterLoop
    \/ NightlyMain

SpecNightly == CiInit /\ [][NextNightly]_vars

\* ------------------------------------------------------ ci/deploy.py deploy
\* ci/deploy.py lines 48-63: `configs`.
ConfigsDeployPy ==
    << [build |-> "crypto", publish |-> <<"@tanker/crypto">>],
       [build |-> "datastores",
        publish |-> <<"@tanker/datastore-base", "@tanker/datastore-dexie-browser",
                      "@tanker/datastore-pouchdb-base", "@tanker/datastore-pouchdb-memory",
                      "@tanker/datastore-pouchdb-node">>],
       [build |-> "core", publish |-> <<"@tanker/core">>],
       [build |-> "client-browser", publish |-> <<"@tanker/client-browser">>],
       [build |-> "client-node", publish |-> <<"@tanker/client-node">>] >>

\* run-ci.py lines 210-242: `configs` of the later script.
ConfigsRunCi ==
    << [build |-> "global-this", publish |-> <<"@tanker/global-this">>],
       [build |-> "crypto", publish |-> <<"@tanker/crypto">>],
       [build |-> "errors", publish |-> <<"@tanker/errors">>],
       [build |-> "file-ponyfill", publish |-> <<"@tanker/file-ponyfill">>],
       [build |-> "file-reader", publish |-> <<"@tanker/file-reader">>],
       [build |-> "http-utils", publish |-> <<"@tanker/http-utils">>],
       [build |-> "types", publish |-> <<"@tanker/types">>],
       [build |-> "streams",
        publish |-> <<"@tanker/stream-base", "@tanker/stream-cloud-storage">>],
       [build |-> "datastores",
        publish |-> <<"@tanker/datastore-base", "@tanker/datastore-dexie-base",
                      "@tanker/datastore-dexie-browser", "@tanker/datastore-pouchdb-base",
                      "@tanker/datastore-pouchdb-memory", "@tanker/datastore-pouchdb-node">>],
       [build |-> "core", publish |-> <<"@tanker/core">>],
       [build |-> "client-browser", publish |-> <<"@tanker/client-browser">>],
       [build |-> "client-node", publish |-> <<"@tanker/client-node">>],
       [build |-> "verification-ui", publish |-> <<"@tanker/verification-ui">>],
       [build |-> "fake-authentication", publish |-> <<"@tanker/fake-authentication">>],
       [build |-> "filekit", publish |-> <<"@tanker/filekit">>] >>

\* ci/utils.py run, lines 12-15: subprocess.run(cmd, check=True) returns when
\* the command exits with 0 and raises CalledProcessError otherwise.
RunRaises(ok) == ~ok

\* Where the loops of lines 65-68 go after the publish at (cfg, pkg).
AfterPublish(list, c, p) ==
    IF p < Len(list[c].publish) THEN [pc |-> "publish", cfg |-> c, pkg |-> p + 1]
    ELSE IF c < Len(list) THEN [pc |-> "build", cfg |-> c + 1, pkg |-> 0]
    ELSE [pc |-> "done", cfg |-> c, pkg |-> p]

\* deploy_sdk, lines 45-63: version_from_git_tag asserts that the tag is a
\* version tag; then configs is set and the loop starts.
DeployStart ==
    /\ deployPc = "idle"
    /\ \E list \in {ConfigsDeployPy, ConfigsRunCi} : \E tagIsVersion \in BOOLEAN :
          IF tagIsVersion
          THEN /\ configs' = list
               /\ cfg' = 1
               /\ deployPc' = "build"
          ELSE /\ deployPc' = "failed"
               /\ UNCHANGED <<configs, cfg>>
    /\ UNCHANGED <<pkg, deployLog>>
    /\ UNCHANGED <<relayVars, nightlyVars, browserVars>>

\* Mutant of DeployBuild: the build is run without check=True, a failed build
\* is followed by the publishing of its packages.
DeployBuild_unchecked ==
    /\ deployPc = "build"
    /\ \E ok \in BOOLEAN :
          deployLog' = Append(deployLog, [step |-> "build", name |-> configs[cfg].build,
                                          ok |-> ok])
    /\ deployPc' = "publish"
    /\ pkg' = 1
    /\ UNCHANGED <<configs, cfg>>
    /\ UNCHANGED <<relayVars, nightlyVars, browserVars>>

\* Line 66: ci.yarn_build(config["build"], env).
DeployBuild ==
    /\ deployPc = "build"
    /\ \E ok \in BOOLEAN :
          /\ deployLog' = Append(deployLog, [step |-> "build", name |-> configs[cfg].build,
                                             ok |-> ok])
          /\ IF RunRaises(ok)
             THEN /\ deployPc' = "failed"
                  /\ UNCHANGED pkg
             ELSE /\ deployPc' = "publish"
                  /\ pkg' = 1
    /\ UNCHANGED <<configs, cfg>>
    /\ UNCHANGED <<relayVars, nightlyVars, browserVars>>

\* Lines 67-68 and 38-41: publish_npm_package runs `npm publish` for the next
\* package of the config.
DeployPublish ==
    /\ deployPc = "publish"
    /\ \E ok \in BOOLEAN :
          /\ deployLog' = Append(deployLog, [step |-> "publish",
                                             name |-> configs[cfg].publish[pkg],
                                             ok |-> ok])
          /\ IF RunRaises(ok)
             THEN /\ deployPc' = "failed"
                  /\ UNCHANGED <<cfg, pkg>>
             ELSE LET next == AfterPublish(configs, cfg, pkg)
                  IN  /\ deployPc' = next.pc
                      /\ cfg' = next.cfg
                      /\ pkg' = next.pkg
    /\ UNCHANGED configs
    /\ UNCHANGED <<relayVars, nightlyVars, browserVars>>

\* ------------------------------------------- ci/check.py run_tests_in_browser
\* The runners whose branch is modelled: "linux" runs karma at once, "macos"
\* prepares Safari first.  (The windows runners go through pyback's client.)
Runners == {"linux", "macos"}

\* How ci.run_yarn("karma", ...) can end: yarn exits with 0, with another
\* status (check=True raises CalledProcessError), or the job is interrupted.
KarmaOutcomes == {"ok", "CalledProcessError", "KeyboardInterrupt"}

\* run_tests_in_browser, lines 102-108: the call, on a machine where Safari
\* may be running and may have left its state behind.
BrowserStart ==
    /\ browserPc = "idle"
    /\ \E r \in Runners : \E s \in {"running", "gone"} : \E st \in BOOLEAN :
          /\ runner' = r
          /\ safari' = s
          /\ safariState' = st
          /\ browserPc' = IF r = "macos" THEN "killall" ELSE "karma"
    /\ UNCHANGED <<safari_awaker, karma, browserSteps>>
    /\ UNCHANGED <<relayVars, nightlyVars, deployVars>>

\* Line 109: ci.run("killall", "Safari", check=False) signals Safari if it is
\* running; with check=False the status of killall is not looked at.
BrowserKillall ==
    /\ browserPc = "killall"
    /\ safari' = IF safari = "running" THEN "signalled" ELSE safari
    /\ browserSteps' = Append(browserSteps, "killall")
    /\ browserPc' = "delete_state"
    /\ UNCHANGED <<runner, safariState, safari_awaker, karma>>
    /\ UNCHANGED <<relayVars, nightlyVars, deployVars>>

\* Safari ends after the signal.
SafariQuit ==
    /\ safari = "signalled"
    /\ safari' = "gone"
    /\ UNCHANGED <<browserPc, runner, safariState, safari_awaker, karma, browserSteps>>
    /\ UNCHANGED <<relayVars, nightlyVars, deployVars>>

\* Line 110 and lines 97-99: delete_safari_state removes ~/Library/Safari
\* (rmtree_p: a missing directory is not an error; another error is raised).
BrowserDeleteState ==
    /\ browserPc = "delete_state"
    /\ \E ok \in BOOLEAN :
          IF ok
          THEN /\ safariState' = FALSE
               /\ browserSteps' = Append(browserSteps, "delete_safari_state")
               /\ browserPc' = "popen"
          ELSE /\ browserPc' = "raised"
               /\ UNCHANGED <<safariState, browserSteps>>
    /\ UNCHANGED <<runner, safari, safari_awaker, karma>>
    /\ UNCHANGED <<relayVars, nightlyVars, deployVars>>

\* Line 111: subprocess.Popen(["bash", "ci/keep-safari-awake.sh"]) starts the
\* background process, or raises when it cannot.
BrowserPopen ==
    /\ browserPc = "popen"
    /\ \E ok \in BOOLEAN :
          IF ok
          THEN /\ safari_awaker' = "running"
               /\ browserSteps' = Append(browserSteps, "popen")
               /\ browserPc' = "karma"
          ELSE /\ browserPc' = "raised"
               /\ UNCHANGED <<safari_awaker, browserSteps>>
    /\ UNCHANGED <<runner, safari, safariState, karma>>
    /\ UNCHANGED <<relayVars, nightlyVars, deployVars>>

\* The background script ends by itself.
AwakerExit ==
    /\ safari_awaker = "running"
    /\ safari_awaker' = "exited"
    /\ UNCHANGED <<browserPc, runner, safari, safariState, karma, browserSteps>>
    /\ UNCHANGED <<relayVars, nightlyVars, deployVars>>

\* Mutant of BrowserKarma: without the try/finally of lines 112-115 an
\* exception of karma leaves the function at once.
BrowserKarma_no_finally ==
    /\ browserPc = "karma"
    /\ \E outcome \in KarmaOutcomes : \E left \in {"running", "gone"} :
          /\ karma' = <<outcome>>
          /\ browserSteps' = Append(browserSteps, "karma")
          /\ safari' = IF runner = "macos" THEN left ELSE safari
          /\ safariState' = IF runner = "macos" THEN TRUE ELSE safariState
          /\ browserPc' = IF outcome /= "ok" THEN "raised"
                          ELSE IF runner = "macos" THEN "finally" ELSE "returned"
    /\ UNCHANGED <<runner, safari_awaker>>
    /\ UNCHANGED <<relayVars, nightlyVars, deployVars>>

\* Lines 107 and 113: ci.run_yarn("karma", ...).  On macos karma drives
\* Safari, which writes its state and may be left running; the call is inside
\* try/finally, so every way it ends leads to line 115.
BrowserKarma ==
    /\ browserPc = "karma"
    /\ \E outcome \in KarmaOutcomes : \E left \in {"running", "gone"} :
          /\ karma' = <<outcome>>
          /\ browserSteps' = Append(browserSteps, "karma")
          /\ safari' = IF runner = "macos" THEN left ELSE safari
          /\ safariState' = IF runner = "macos" THEN TRUE ELSE safariState
          /\ browserPc' = IF runner = "macos" THEN "finally"
                          ELSE IF outcome = "ok" THEN "returned" ELSE "raised"
    /\ UNCHANGED <<runner, safari_awaker>>
    /\ UNCHANGED <<relayVars, nightlyVars, deployVars>>

\* Lines 114-115: safari_awaker.kill() kills the process if it still runs;
\* then the function returns, or karma's exception goes on.
BrowserFinally ==
    /\ browserPc = "finally"
    /\ safari_awaker' = IF safari_awaker = "running" THEN "killed" ELSE safari_awaker
    /\ browserSteps' = Append(browserSteps, "kill")
    /\ browserPc' = IF karma = <<"ok">> THEN "returned" ELSE "raised"
    /\ UNCHANGED <<runner, safari, safariState, karma>>
    /\ UNCHANGED <<relayVars, nightlyVars, deployVars>>

\* The deploy job and the check job of a pipeline, each on its own runner.
NextJobs ==
    \/ DeployStart
    \/ DeployBuild
    \/ DeployPublish
    \/ BrowserStart
    \/ BrowserKillall
    \/ SafariQuit
    \/ BrowserDeleteState
    \/ BrowserPopen
    \/ AwakerExit
    \/ BrowserKarma
    \/ BrowserFinally

SpecJobs == CiInit /\ [][NextJobs]_vars

\* ------------------------------------------------------------------ claims
Last(q) == q[Len(q)]
HasExit(log) == \E i \in DOMAIN log : IsExit(log[i])
ChildExited(c) == child[c].state = "exited"

\* What the client prints for the lines of a log of OutputEvents: one print
\* call per non-empty line, sanitized.
RECURSIVE PrintsOf(_)
PrintsOf(log) ==
    IF log = <<>> THEN <<>>
    ELSE IF IsLine(Head(log)) /\ Head(log).line /= <<>>
         THEN << <<sanitize_line(Head(log).line)>> >> \o PrintsOf(Tail(log))
         ELSE PrintsOf(Tail(log))

\* The print calls of the client that print a line (one argument), without
\* the "process exited with" notice (two arguments).
LinePrints(c) == SelectSeq(stdout[c], LAMBDA p : Len(p) = 1)

\* C1: when the child exits with status 0 the client never raises
\* ProcessFailed, and once it has returned it has received every message the
\* server sent: OutputEvents only, then the ExitEvent (0) as the last one.
C1_SuccessReturnsAfterAllOutput ==
    \A c \in active :
        (child[c].state /= "none" /\ child[c].rc = 0) =>
            /\ cliPc[c] /= "failed"
            /\ cliPc[c] = "returned" =>
                  /\ ChildExited(c)
                  /\ recvLog[c] = sentLog[c]
                  /\ \A i \in 1..(Len(recvLog[c]) - 1) : IsLine(recvLog[c][i])
                  /\ IsExit(Last(recvLog[c])) /\ Last(recvLog[c]).exit = 0

C1_Witness ==
    \E c \in active :
        /\ cliPc[c] = "returned"
        /\ child[c].rc = 0
        /\ Len(recvLog[c]) = 3
        /\ recvLog[c][1].line /= <<>>
        /\ recvLog[c][2].line /= <<>>

\* C2: when the child exits with a non-zero status N the client never returns
\* normally; when it has raised ProcessFailed, the exception carries exactly N
\* and every output line received before the ExitEvent has been printed
\* already (then the notice); also when the child wrote nothing.
C2_FailureRaisesExitCode ==
    \A c \in active :
        /\ (child[c].state /= "none" /\ child[c].rc /= 0) => cliPc[c] /= "returned"
        /\ cliPc[c] = "failed" =>
              /\ ChildExited(c)
              /\ child[c].rc /= 0
              /\ cliExc[c] = <<child[c].rc>>
              /\ stdout[c] = PrintsOf(recvLog[c])
                                \o << <<"process exited with", child[c].rc>> >>

C2_Witness ==
    \E c \in active :
        /\ cliPc[c] = "failed"
        /\ cliExc[c] = <<7>>
        /\ written[c] = <<>>
        /\ stdout[c] = << <<"process exited with", 7>> >>

\* C3: when the ExitEvent is sent, every line the child wrote has been sent as
\* an OutputEvent before it: no child output is lost.
C3_ExitAfterAllOutputSent ==
    \A c \in active :
        HasExit(sentLog[c]) =>
            SelectSeq(sentLog[c], LAMBDA m : IsLine(m) /\ m.line /= <<>>)
                = [i \in DOMAIN written[c] |-> LineMessage(written[c][i])]

\* C4: the server sends at most one ExitEvent per child, it carries the
\* child's exit status and nothing is sent after it; once run_cmd has
\* returned, that one ExitEvent has been sent.
C4_ExactlyOneExitEventLast ==
    \A c \in active :
        /\ \A i \in DOMAIN sentLog[c] :
              IsExit(sentLog[c][i]) =>
                  /\ i = Len(sentLog[c])
                  /\ ChildExited(c)
                  /\ sentLog[c][i].exit = child[c].rc
        /\ (nSpawn[c] >= 1 /\ srvPc[c] \in {"recv", "done"}) =>
              /\ sentLog[c] /= <<>>
              /\ IsExit(Last(sentLog[c]))

C4_Witness ==
    \E c \in active :
        /\ srvPc[c] = "recv"
        /\ Len(sentLog[c]) >= 2
        /\ IsExit(Last(sentLog[c]))
        /\ Last(sentLog[c]).exit = 7

\* C5: at every point, the lines the client has printed are a prefix of the
\* lines the child wrote (decoded by the server, sanitized by the client), in
\* the child's order and each once.
C5_OutputOrderPreserved ==
    \A c \in active :
        LET printed == LinePrints(c)
        IN  /\ Len(printed) <= Len(written[c])
            /\ \A i \in DOMAIN printed :
                  printed[i] = <<sanitize_line(Utf8DecodeReplace(written[c][i]))>>

C5_Witness ==
    \E c \in active :
        /\ Len(LinePrints(c)) = 2
        /\ written[c][1] /= written[c][2]

\* C6: a request whose working directory does not exist is answered by an
\* ExitEvent with a non-zero code: the handler does not fail, the connection
\* is not closed under the client, the client does not end with a transport
\* error.
C6_LaunchFailureYieldsExitEvent ==
    \A c \in active :
        (request[c].working_dir \notin ExistingDirs /\ nReq[c] >= 1 /\ ~dropped[c]) =>
            /\ srvPc[c] /= "crashed"
            /\ cliPc[c] /= "transport_error"
            /\ srvPc[c] \in {"recv", "done"} =>
                  /\ HasExit(sentLog[c])
                  /\ Last(sentLog[c]).exit /= 0

\* C7: the client returns only on a message whose exit field is 0 and raises
\* ProcessFailed only on one whose exit field is not 0; as long as it has
\* received OutputEvents only (empty or undecodable ones too), it is still in
\* its receive loop.
C7_CompleteOnlyOnExitEvent ==
    \A c \in active :
        /\ cliPc[c] = "returned" =>
              /\ recvLog[c] /= <<>>
              /\ IsExit(Last(recvLog[c]))
              /\ Last(recvLog[c]).exit = 0
        /\ cliPc[c] = "failed" =>
              /\ recvLog[c] /= <<>>
              /\ IsExit(Last(recvLog[c]))
              /\ Last(recvLog[c]).exit /= 0
        /\ (cliPc[c] \in {"returned", "failed"}) =>
              \A i \in 1..(Len(recvLog[c]) - 1) : ~IsExit(recvLog[c][i])
        /\ (nSent[c] >= 1 /\ ~HasExit(recvLog[c])) =>
              cliPc[c] \in {"recv", "transport_error"}

C7_Witness ==
    \E c \in active :
        /\ cliPc[c] = "recv"
        /\ conn[c] = "open"
        /\ Len(recvLog[c]) = 3
        /\ \E i \in 1..3 : recvLog[c][i].line = <<>>
        /\ \E i \in 1..3 : recvLog[c][i].line = <<ReplacementChar, 10>>

\* C8: when the network drops the connection and the client has received no
\* ExitEvent, the client neither returns nor raises ProcessFailed: it is still
\* waiting or has ended with the transport error; and the client connects
\* once and sends its request at most once, whatever happens.
C8_DropIsTransportError ==
    \A c \in active :
        /\ (dropped[c] /\ ~HasExit(recvLog[c])) =>
              /\ cliPc[c] \in {"send", "recv", "transport_error"}
              /\ cliExc[c] = <<>>
        /\ (cliPc[c] = "transport_error") => (conn[c] = "closed" /\ ~HasExit(recvLog[c]))
        /\ nConnect[c] <= 1
        /\ nSent[c] <= 1

C8_Witness ==
    \E c \in active :
        /\ dropped[c]
        /\ cliPc[c] = "transport_error"
        /\ nSent[c] = 1
        /\ HasExit(sentLog[c])
        /\ recvLog[c] /= <<>>

\* C9: on a connection the client sends its request once and the server
\* starts one child: never more than one of either, the request is sent once
\* the client is past its send, and whatever the server sends on the
\* connection comes from that one child.
C9_OneRequestOneChild ==
    \A c \in active :
        /\ nSent[c] <= 1
        /\ nReq[c] <= nSent[c]
        /\ nSpawn[c] <= 1
        /\ cliPc[c] \in {"recv", "returned", "failed"} => nSent[c] = 1
        /\ (sentLog[c] /= <<>> \/ srvPc[c] \in {"poll", "readline", "send_line", "send_exit"})
              => nSpawn[c] = 1

C9_Witness ==
    \E c \in active :
        /\ cliPc[c] = "returned"
        /\ srvPc[c] = "done"
        /\ nSent[c] = 1
        /\ nSpawn[c] = 1

\* C10: the server starts at most one child per request it received, also
\* when the child failed; a client that has received a non-zero ExitEvent has
\* raised ProcessFailed, has sent its request once and no request of it is
\* under way.
C10_NothingIsRetried ==
    \A c \in active :
        /\ nSpawn[c] <= nReq[c]
        /\ (HasExit(recvLog[c]) /\ Last(recvLog[c]).exit /= 0) =>
              /\ cliPc[c] = "failed"
              /\ nSent[c] = 1
              /\ nConnect[c] = 1
              /\ c2s[c] = <<>>
              /\ conn[c] = "closed"

C10_Witness ==
    \E c \in active :
        /\ cliPc[c] = "failed"
        /\ srvPc[c] = "done"
        /\ child[c].rc /= 0
        /\ nReq[c] = 1
        /\ nSpawn[c] = 1

\* The lines the server has read from the pipe of c, and the OutputEvents with
\* a line of the child (not the empty one of an end-of-file read) it has sent.
LinesRead(c) == Len(written[c]) - Len(pipe[c])
LinesSent(c) == Cardinality({i \in DOMAIN sentLog[c] :
                                IsLine(sentLog[c][i]) /\ sentLog[c][i].line /= <<>>})

\* C11: the server streams.  Whenever the server is about to poll or to read,
\* every line it has read from the child has been sent; a line read and not yet
\* sent exists only while the server is sending it (or after the send failed on
\* a closed connection), and there is never more than one.  While the child is
\* still running, reading an available line and sending it are never held back.
C11_StreamsWithoutBuffering ==
    \A c \in active :
        /\ LinesRead(c) - LinesSent(c) \in {0, 1}
        /\ srvPc[c] \in {"poll", "readline", "recv", "send_exit"}
               => LinesRead(c) = LinesSent(c)
        /\ (srvPc[c] = "send_line" /\ srvMsg[c].line /= <<>>)
               => LinesRead(c) = LinesSent(c) + 1
        /\ (child[c].state = "running" /\ srvPc[c] = "readline" /\ pipe[c] /= <<>>)
               => ENABLED ServerReadline(c)
        /\ (child[c].state = "running" /\ srvPc[c] = "send_line")
               => ENABLED ServerSend(c)

\* A child that is still running and has more to write, while its first line
\* has already reached the client.
C11_Witness ==
    \E c \in active :
        /\ child[c].state = "running"
        /\ child[c].todo /= <<>>
        /\ LinesSent(c) = 1
        /\ recvLog[c] /= <<>>
        /\ recvLog[c][1] = LineMessage(written[c][1])

\* The state of the exchange of a connection, as the client sees it: IDLE
\* until the request is sent, REQUEST_SENT until a message arrives, STREAMING
\* once an OutputEvent has arrived, COMPLETED once the ExitEvent has.  A
\* transport error is out of band.
ProtocolState(pc, sent, log) ==
    IF HasExit(log) THEN "COMPLETED"
    ELSE IF pc = "transport_error" THEN "DISCONNECTED"
    ELSE IF sent = 0 THEN "IDLE"
    ELSE IF log = <<>> THEN "REQUEST_SENT"
    ELSE "STREAMING"

\* The transitions of the state machine; a command without output completes
\* without passing through STREAMING.
ProtocolTransitions ==
    {<<"IDLE", "REQUEST_SENT">>, <<"REQUEST_SENT", "STREAMING">>,
     <<"REQUEST_SENT", "COMPLETED">>, <<"STREAMING", "COMPLETED">>,
     <<"IDLE", "DISCONNECTED">>, <<"REQUEST_SENT", "DISCONNECTED">>,
     <<"STREAMING", "DISCONNECTED">>}

\* C12: every step takes the exchange of a connection along the state machine
\* IDLE -> REQUEST_SENT -> STREAMING -> COMPLETED (or leaves its state as it
\* is); the exchange is COMPLETED exactly when the client has returned or
\* raised ProcessFailed; no step leaves COMPLETED, and in COMPLETED nothing is
\* sent by either side, received or printed any more.
C12_CompletedIsTerminal ==
    [][\A c \in active :
          LET before == ProtocolState(cliPc[c], nSent[c], recvLog[c])
              after == ProtocolState(cliPc'[c], nSent'[c], recvLog'[c])
          IN  /\ before = after \/ <<before, after>> \in ProtocolTransitions
              /\ after = "COMPLETED" <=> cliPc'[c] \in {"returned", "failed"}
              /\ before = "COMPLETED" =>
                    /\ after = "COMPLETED"
                    /\ s2c[c] = <<>>
                    /\ UNCHANGED <<cliPc[c], cliExc[c], nSent[c], c2s[c], s2c[c],
                                   sentLog[c], recvLog[c], stdout[c]>>]_vars

\* A completed exchange that went through every state: the request was sent,
\* an OutputEvent and then the ExitEvent were received, and the server's
\* handler has ended.
C12_Witness ==
    \E c \in active :
        /\ ProtocolState(cliPc[c], nSent[c], recvLog[c]) = "COMPLETED"
        /\ Len(recvLog[c]) >= 2
        /\ IsLine(recvLog[c][1])
        /\ srvPc[c] = "done"

\* C13: the server process keeps serving whatever the exit status of a child
\* is.  The status appears only as the value of the ExitEvent of the child's
\* own connection; and once the ExitEvent of one connection has been sent, with
\* any status, another connection that is open is accepted, and its request is
\* taken and executed.
C13_ServerSurvivesChildFailure ==
    /\ serving
    /\ \A c \in active :
          /\ \A i \in DOMAIN sentLog[c] :
                IsExit(sentLog[c][i]) => /\ ChildExited(c)
                                         /\ sentLog[c][i].exit = child[c].rc
          /\ \A d \in active \ {c} :
                HasExit(sentLog[d]) =>
                   /\ (srvPc[c] = "idle" /\ conn[c] = "open") => ENABLED ServerAccept(c)
                   /\ (srvPc[c] = "recv" /\ c2s[c] /= <<>>) => ENABLED ServerOnMessage(c)

\* A connection accepted after the child of the other connection had failed,
\* whose own command was then run to its end and reported to its client.
C13_Witness ==
    \E c \in active : \E d \in servedBefore[c] :
        /\ child[d].rc /= 0
        /\ nSpawn[c] = 1
        /\ HasExit(recvLog[c])
        /\ Last(recvLog[c]).exit = child[c].rc

HasChild(c) == child[c].state /= "none"

\* The messages a request can give rise to: an OutputEvent for one of the
\* lines of its command or for an end-of-file read, or the ExitEvent with the
\* status of its command.
MessageOfRequest(m, r) ==
    IF IsExit(m) THEN m.exit = r.cmd.rc
    ELSE \/ m.line = <<>>
         \/ \E j \in DOMAIN r.cmd.out : m = LineMessage(r.cmd.out[j])

\* C14: requests are isolated.  The child started for a request runs in that
\* request's working directory with that request's environment, is a process
\* of its own, and every message sent on its connection is determined by that
\* request alone, whatever the other request is and whether or not the other
\* request was served before.
C14_RequestsAreIsolated ==
    \A c \in active :
        /\ HasChild(c) =>
              /\ child[c].cwd = request[c].working_dir
              /\ child[c].env = request[c].env
              /\ \A d \in active \ {c} : HasChild(d) => child[d].proc /= child[c].proc
        /\ \A i \in DOMAIN sentLog[c] : MessageOfRequest(sentLog[c][i], request[c])
        /\ \A i \in DOMAIN recvLog[c] : MessageOfRequest(recvLog[c][i], request[c])

\* Two sequential requests with different directories and environments: the
\* second was accepted after the first one's ExitEvent, and has run to its end.
C14_Witness ==
    \E c \in active : \E d \in servedBefore[c] :
        /\ HasChild(c) /\ HasChild(d)
        /\ request[c].working_dir /= request[d].working_dir
        /\ request[c].env /= request[d].env
        /\ Len(recvLog[c]) >= 2
        /\ HasExit(recvLog[c])
        /\ HasExit(recvLog[d])

\* A command like `echo hello`: it writes one line and exits with status 0.
WritesOneLineAndSucceeds(cmd) ==
    /\ Len(cmd.out) = 1
    /\ cmd.rc = 0
    /\ ~cmd.closes
    /\ ~cmd.detaches

\* C15: for a child that writes exactly one line and exits with status 0, a
\* client that has returned has received exactly the OutputEvent with that
\* line and then the ExitEvent with status 0.
C15_OneLineThenExitZero ==
    \A c \in active :
        (WritesOneLineAndSucceeds(request[c].cmd) /\ cliPc[c] = "returned") =>
            recvLog[c] = <<LineMessage(request[c].cmd.out[1]), ExitMessage(0)>>

\* The OutputEvents with a line of the child (not those of end-of-file reads)
\* among the messages of a log.
LineEvents(log) == SelectSeq(log, LAMBDA m : IsLine(m) /\ m.line /= <<>>)

\* C16: undecodable output is never fatal.  With the connection not dropped
\* and an existing working directory, the server's handler never fails and the
\* client never ends with a transport error, whatever bytes the child writes.
\* Every line the server has read, valid text or not, became an OutputEvent
\* with the invalid bytes replaced, in the child's order and followed by the
\* OutputEvents of the lines read after it; the client prints each one it
\* receives; and an ExitEvent it receives carries the child's real status.
C16_UndecodableOutputIsNotFatal ==
    \A c \in active :
        /\ (~dropped[c] /\ request[c].working_dir \in ExistingDirs) =>
              /\ srvPc[c] /= "crashed"
              /\ cliPc[c] /= "transport_error"
        /\ srvPc[c] \in {"poll", "readline", "recv", "send_exit", "done"} =>
              Len(LineEvents(sentLog[c])) = LinesRead(c)
        /\ \A k \in DOMAIN LineEvents(sentLog[c]) :
              LineEvents(sentLog[c])[k] = [line |-> Utf8DecodeReplace(written[c][k])]
        /\ \A k \in DOMAIN LineEvents(recvLog[c]) :
              /\ LineEvents(recvLog[c])[k] = [line |-> Utf8DecodeReplace(written[c][k])]
              /\ LinePrints(c)[k] = <<sanitize_line(Utf8DecodeReplace(written[c][k]))>>
        /\ \A i \in DOMAIN recvLog[c] :
              IsExit(recvLog[c][i]) => /\ ChildExited(c)
                                       /\ recvLog[c][i].exit = child[c].rc
                                       /\ i = Len(recvLog[c])

\* The child wrote a line that is not UTF-8 and then another line; the client
\* received the first with U+FFFD in place of the bad byte, then the second,
\* then the ExitEvent with the child's non-zero status, and printed the first
\* in ASCII.
C16_Witness ==
    \E c \in active :
        /\ written[c] = <<LineBad, LineA>>
        /\ recvLog[c] = <<[line |-> <<ReplacementChar, 10>>], [line |-> <<65, 10>>],
                          ExitMessage(7)>>
        /\ stdout[c][1] = <<sanitize_line(<<ReplacementChar, 10>>)>>
        /\ cliPc[c] = "failed"

\* C17: a child that was started runs in the working directory of the request
\* and its environment is the request's mapping, variable for variable: it has
\* no variable of the server's environment that the request did not supply.
C17_ChildGetsRequestCwdAndEnv ==
    \A c \in active :
        HasChild(c) =>
            /\ child[c].cwd = request[c].working_dir
            /\ DOMAIN child[c].env = DOMAIN request[c].env
            /\ \A k \in DOMAIN request[c].env : child[c].env[k] = request[c].env[k]
            /\ \A k \in DOMAIN ServerEnv :
                  k \in DOMAIN child[c].env => k \in DOMAIN request[c].env

\* A child started in /work with PROJECT_CONFIG as its only variable.
C17_Witness ==
    \E c \in active :
        /\ HasChild(c)
        /\ child[c].cwd = "/work"
        /\ child[c].env = [PROJECT_CONFIG |-> "dev"]
        /\ "PATH" \notin DOMAIN child[c].env

\* C18: a request whose command is empty never causes a child process to be
\* started.
C18_EmptyCommandStartsNoChild ==
    \A c \in active :
        request[c].cmd.text = "" => /\ nSpawn[c] = 0
                                    /\ ~HasChild(c)

\* C19: on a reliable channel and under fair scheduling, once the child has
\* exited the server sends the ExitEvent and the client terminates, by
\* returning or by raising ProcessFailed.
C19_ChildExitLeadsToTermination ==
    \A c \in Conns :
        (c \in active /\ ChildExited(c)) ~>
            (HasExit(sentLog[c]) /\ cliPc[c] \in {"returned", "failed"})

\* Whether a log holds, in the child's order, OutputEvents of the lines child
\* c wrote (and of end-of-file reads) and at most one ExitEvent, with the
\* status of child c, as its last message.
OwnMessagesInOrder(log, c) ==
    /\ Len(LineEvents(log)) <= Len(written[c])
    /\ \A k \in DOMAIN LineEvents(log) :
          LineEvents(log)[k] = [line |-> Utf8DecodeReplace(written[c][k])]
    /\ \A i \in DOMAIN log :
          IsExit(log[i]) => /\ i = Len(log)
                            /\ ChildExited(c)
                            /\ log[i].exit = child[c].rc

\* Whether a message comes from child d: an OutputEvent of a line it wrote, or
\* the ExitEvent with its status.
FromChild(m, d) ==
    IF IsExit(m) THEN ChildExited(d) /\ m.exit = child[d].rc
    ELSE \E k \in DOMAIN written[d] : m = [line |-> Utf8DecodeReplace(written[d][k])]

\* C20: with two connections served by the same loop, under every interleaving
\* of the handlers the messages sent and received on a connection are those of
\* its own child, its lines in order and its ExitEvent last; the client has
\* received a prefix of what was sent to it; and no message that comes from
\* the other connection's child is among them.
C20_NoCrossDelivery ==
    \A c \in active :
        /\ OwnMessagesInOrder(sentLog[c], c)
        /\ OwnMessagesInOrder(recvLog[c], c)
        /\ Len(recvLog[c]) <= Len(sentLog[c])
        /\ \A i \in DOMAIN recvLog[c] : recvLog[c][i] = sentLog[c][i]
        /\ \A d \in active \ {c} : \A i \in DOMAIN sentLog[c] :
              ~FromChild(sentLog[c][i], d)

\* Both commands ran at the same time (neither connection was accepted after
\* the other's ExitEvent) and both clients have their own line and status.
C20_Witness ==
    /\ active = {1, 2}
    /\ \A c \in active :
          /\ servedBefore[c] = {}
          /\ Len(LineEvents(recvLog[c])) = 1
          /\ HasExit(recvLog[c])
          /\ cliPc[c] \in {"returned", "failed"}
    /\ Last(recvLog[1]).exit /= Last(recvLog[2]).exit

\* Whether the child of d is running and silent: it has written nothing that
\* is still unread, and has neither closed its output nor exited.
Silent(d) == child[d].state = "running" /\ pipe[d] = <<>>

\* Whether the handler of c has something to deliver: it is in its loop, and
\* its child has produced a line that is not sent yet or has exited.
HasWorkToDeliver(c) ==
    /\ srvPc[c] \in {"poll", "readline", "send_line", "send_exit"}
    /\ conn[c] = "open"
    /\ pipe[c] /= <<>> \/ ChildExited(c) \/ srvPc[c] \in {"send_line", "send_exit"}

\* C21: while the child of one connection is running but silent and its
\* handler waits for its next line, the handler of the other connection can
\* still take its next step towards sending the lines its child has produced
\* and its ExitEvent.
C21_SilentChildBlocksNobody ==
    \A c \in active : \A d \in active \ {c} :
        (Silent(d) /\ srvPc[d] = "readline" /\ HasWorkToDeliver(c)) =>
            ENABLED (ServerPoll(c) \/ ServerReadline(c) \/ ServerSend(c))

\* C22: every OutputEvent the server sends carries a non-empty line that the
\* child wrote, and the OutputEvents sent are never more than the lines the
\* child wrote.
C22_OutputEventsAreNonEmpty ==
    \A c \in active :
        /\ \A i \in DOMAIN sentLog[c] :
              IsLine(sentLog[c][i]) =>
                 /\ sentLog[c][i].line /= <<>>
                 /\ \E k \in DOMAIN written[c] : sentLog[c][i] = LineMessage(written[c][k])
        /\ Cardinality({i \in DOMAIN sentLog[c] : IsLine(sentLog[c][i])}) <= Len(written[c])

\* A message with neither a non-empty line nor an exit field.
CarriesNothing(m) == ~IsExit(m) /\ (IsLine(m) => m.line = <<>>)

\* C23: when the client receives a message that carries neither a non-empty
\* line nor an exit field, it prints nothing, raises nothing and stays in its
\* receive loop on the same connection; when it receives a message with exit 0
\* it prints nothing, raises nothing and returns.  on_message itself ignores
\* the message without any field and the one whose line is empty.
C23_EmptyMessageIsIgnored ==
    [][/\ \A m \in {NoMessage, [line |-> <<>>]} :
             client_on_message(JsonDumps(m, IF IsLine(m) THEN <<"line">> ELSE <<>>))
                = [prints |-> <<>>, done |-> FALSE, raised |-> <<>>]
       /\ \A c \in active :
             Len(recvLog'[c]) = Len(recvLog[c]) + 1 =>
                LET m == Last(recvLog'[c])
                IN  /\ CarriesNothing(m) =>
                          /\ stdout'[c] = stdout[c]
                          /\ cliExc'[c] = <<>>
                          /\ cliPc'[c] = "recv"
                          /\ conn'[c] = conn[c]
                          /\ s2c'[c] = Tail(s2c[c])
                    /\ (IsExit(m) /\ m.exit = 0) =>
                          /\ stdout'[c] = stdout[c]
                          /\ cliExc'[c] = <<>>
                          /\ cliPc'[c] = "returned"]_vars

\* The client received an OutputEvent with an empty line, went on, received
\* the ExitEvent with status 0 and returned, having printed nothing.
C23_Witness ==
    \E c \in active :
        /\ recvLog[c] = <<[line |-> <<>>], ExitMessage(0)>>
        /\ stdout[c] = <<>>
        /\ cliExc[c] = <<>>
        /\ cliPc[c] = "returned"

\* Whether run_tests_in_browser_ten_times was called and no round was interrupted.
TenTimesRanUndisturbed ==
    /\ round >= 1
    /\ \A k \in DOMAIN outcomes : outcomes[k] /= "KeyboardInterrupt"

\* C24: the rounds run are 1, 2, ... in order, never more than 10; `failures`
\* holds exactly the numbers of the rounds that failed; once the loop is left
\* without an interruption all 10 rounds have run, however many failed;
\* TestFailed is raised exactly when a round failed; and the process then ends
\* with exit status 1 (0 when no round failed).
C24_TenRoundsThenTestFailed ==
    /\ Len(ran) <= Rounds
    /\ Len(outcomes) = Len(ran)
    /\ \A k \in DOMAIN ran : ran[k] = k
    /\ failures = SelectSeq(ran, LAMBDA k : outcomes[k] \in Caught)
    /\ (TenTimesRanUndisturbed /\ nightlyPc \in {"after_loop", "main", "exited"}) =>
          ran = [k \in 1..Rounds |-> k]
    /\ (TenTimesRanUndisturbed /\ nightlyPc \in {"main", "exited"}) =>
          /\ escaped = <<"TestFailed">> <=> \E k \in DOMAIN outcomes : outcomes[k] \in Caught
          /\ escaped = <<>> <=> \A k \in DOMAIN outcomes : outcomes[k] = "ok"
    /\ (TenTimesRanUndisturbed /\ nightlyPc = "exited") =>
          exitCode = IF escaped = <<"TestFailed">> THEN <<1>> ELSE <<0>>

\* All ten rounds ran although rounds 1, 5 and 10 failed (one of them by
\* SystemExit); TestFailed was raised and the process ended with status 1.
C24_Witness ==
    /\ nightlyPc = "exited"
    /\ Len(ran) = Rounds
    /\ failures = <<1, 5, 10>>
    /\ outcomes[5] = "SystemExit"
    /\ escaped = <<"TestFailed">>
    /\ exitCode = <<1>>

\* The group of configs that a step of the deploy log belongs to: the group
\* whose build it is, or whose publish list holds the package.
GroupOf(entry) ==
    CHOOSE c \in 1..Len(configs) :
        IF entry.step = "build"
        THEN configs[c].build = entry.name
        ELSE \E p \in 1..Len(configs[c].publish) : configs[c].publish[p] = entry.name

\* The place of a group in the dependency chain that both lists share.
DependencyRank(build) ==
    CASE build = "crypto" -> 1
      [] build = "datastores" -> 2
      [] build = "core" -> 3
      [] build \in {"client-browser", "client-node"} -> 4
      [] OTHER -> 0

\* C25: deploy_sdk publishes in dependency order: a package is published only
\* after the build of its own group has completed, the groups are processed in
\* the listed order (crypto, then datastores, then core, then client-browser
\* and client-node), and after a failed build or publish step nothing more is
\* built or published.
C25_PublishInDependencyOrder ==
    /\ \A i \in 1..Len(deployLog) :
          deployLog[i].step = "publish" =>
              \E j \in 1..(i - 1) :
                  /\ deployLog[j].step = "build"
                  /\ deployLog[j].name = configs[GroupOf(deployLog[i])].build
                  /\ deployLog[j].ok
    /\ \A i \in 1..Len(deployLog) : \A j \in (i + 1)..Len(deployLog) :
          /\ GroupOf(deployLog[i]) <= GroupOf(deployLog[j])
          /\ LET ri == DependencyRank(configs[GroupOf(deployLog[i])].build)
                 rj == DependencyRank(configs[GroupOf(deployLog[j])].build)
             IN  (ri > 0 /\ rj > 0) => ri <= rj
    /\ \A i \in 1..Len(deployLog) :
          ~deployLog[i].ok => (i = Len(deployLog) /\ deployPc = "failed")

\* The publishing of @tanker/core fails after crypto and the datastores were
\* published: the deploy stops there.
C25_Witness ==
    /\ deployPc = "failed"
    /\ deployLog /= <<>>
    /\ Last(deployLog) = [step |-> "publish", name |-> "@tanker/core", ok |-> FALSE]
    /\ \E i \in 1..Len(deployLog) :
          deployLog[i] = [step |-> "publish", name |-> "@tanker/datastore-pouchdb-node",
                          ok |-> TRUE]
    /\ \E i \in 1..Len(deployLog) :
          deployLog[i] = [step |-> "publish", name |-> "@tanker/crypto", ok |-> TRUE]

\* run_tests_in_browser is over: it returned or an exception left it.
BrowserOver == browserPc \in {"returned", "raised"}

\* C26: on the macos runner the keep-Safari-awake process is killed when the
\* karma run ends, whether karma succeeds or fails, so it never outlives
\* run_tests_in_browser; and it is started only after Safari has been killed
\* and its persisted state deleted.
C26_AwakerNeverOutlivesTheRun ==
    /\ BrowserOver => safari_awaker /= "running"
    /\ (BrowserOver /\ runner = "macos" /\ karma /= <<>>) =>
          /\ Last(browserSteps) = "kill"
          /\ safari_awaker \in {"killed", "exited"}
    /\ safari_awaker /= "none" =>
          /\ runner = "macos"
          /\ Len(browserSteps) >= Len(<<"killall", "delete_safari_state", "popen">>)
          /\ SubSeq(browserSteps, 1, Len(<<"killall", "delete_safari_state", "popen">>))
                = <<"killall", "delete_safari_state", "popen">>
    /\ (browserPc = "karma" /\ safari_awaker /= "none") =>
          /\ safari /= "running"
          /\ ~safariState

\* Karma failed on macos while the background process was still running: the
\* process was killed and the exception went on.
C26_Witness ==
    /\ runner = "macos"
    /\ karma = <<"CalledProcessError">>
    /\ browserPc = "raised"
    /\ safari_awaker = "killed"
    /\ browserSteps = <<"killall", "delete_safari_state", "popen", "karma", "kill">>

=========================================================================
